---- MODULE Spec2Model ----
(***************************************************************************)
(* Connection lifecycle of the useFetchEventSource hook                    *)
(* (src/src/useFetchEventSource.ts): the refs and state of one hook         *)
(* instance, the caller's open()/close(), the effects (mount,               *)
(* reconfiguration, teardown, visibility) and the callbacks that the        *)
(* fetchEventSource transport invokes on the exchanges the hook started.    *)
(***************************************************************************)
EXTENDS Integers, FiniteSets, Sequences, TLC

VARIABLES
    config,          \* the FetchEventSourceConfig the hook is rendered with
    lifecycle,       \* "rendered" (before the effects ran), "mounted", "unmounted"
    reconfigured,    \* the target or a request option changed since the first render
    readyState,      \* readyStateRef.current
    explicitlyOpen,  \* explicitlyOpen.current
    lastEventId,     \* lastEventId.current
    errorRetries,    \* errorRetries.current
    retryInterval,   \* retryInterval.current
    hidden,          \* hidden.current
    eventMessage,    \* the eventMessage state
    retryTimeoutId,  \* whether retryTimeoutId.current names a pending timer
    timers,          \* number of timers set by _handleRetry that have not fired
    exchanges,       \* fetchEventSource calls whose callbacks can still run, oldest first
    last,            \* the handler that ran last and what it did
    callerClosed,    \* the caller's last command was close()
    retriesScheduled \* retries scheduled after an error since onopen last ran to its end

vars == <<config, lifecycle, reconfigured, readyState, explicitlyOpen, lastEventId,
          errorRetries, retryInterval, hidden, eventMessage, retryTimeoutId,
          timers, exchanges, last, callerClosed, retriesScheduled>>

----------------------------------------------------------------------------
\* Bounds of the model

\* most retry timers pending at once
MaxTimers == 2
\* most exchanges whose callbacks can still run
MaxExchanges == 2
\* cap of the consecutive error retries counter
MaxErrorRetries == 2

----------------------------------------------------------------------------
\* Values

CONNECTING == "CONNECTING"
OPEN == "OPEN"
CLOSED == "CLOSED"

\* export const DefaultRetryInterval = 1000
DefaultRetryInterval == 1000

\* null in lastEventId.current
NoId == "<null>"
\* an absent number: retry?: number of a frame, defaultRetryInterval?: number,
\* and the undefined a policy returns or an absent policy yields
Undefined == -1
\* the false a policy returns
PolicyFalse == -2
\* no policy was asked, no timer was set
None == -3

\* retryTimeoutId.current: the id of a pending timer, or else null or the id of
\* a timer that has fired (window.clearTimeout does nothing for either)
Pending == "pending"
NoTimer == "none"

\* the frames the server sends: id is "" when the frame has none, retry is
\* Undefined when the frame has none
Frames == {[id |-> "", retry |-> Undefined],
           [id |-> "a1", retry |-> 2000],
           [id |-> "b2", retry |-> 0]}
\* eventMessage before any frame: null
NoMessage == [id |-> NoId, retry |-> Undefined]

\* numbers a policy callback may return
PolicyDelays == {0, 3000}
\* values of config.defaultRetryInterval
ConfiguredIntervals == {Undefined, 500}

\* content-type headers of a response ("<none>": the response has none)
ContentTypes == {"text/event-stream", "Text/Event-Stream", "text/html", "<none>"}
Responses == [ok : BOOLEAN, contentType : ContentTypes]
\* no response was validated
NoResponse == [ok |-> FALSE, contentType |-> "<no response>"]

\* values of the Last-Event-ID entry of config.fetchRequestInit.headers
CallerHeaders == {NoId, "c9"}

\* initiallyOpen: TRUE is `true` or absent; openWhenHidden: FALSE is `false`,
\* TRUE is `true` or absent; headers: the caller's Last-Event-ID header, NoId
\* when the caller gives none; fetch, onOpen, onClose, onError: whether the
\* option is supplied
AllConfigs == [initiallyOpen : BOOLEAN,
               openWhenHidden : BOOLEAN,
               defaultRetryInterval : ConfiguredIntervals,
               headers : CallerHeaders,
               fetch : BOOLEAN,
               onOpen : BOOLEAN,
               onClose : BOOLEAN,
               onError : BOOLEAN]

\* the configurations explored: every combination of the options that decide
\* which handlers run, with the value options (defaultRetryInterval, headers,
\* fetch) either all absent or all supplied
Configs == {c \in AllConfigs :
              /\ (c.defaultRetryInterval = Undefined) = (c.headers = NoId)
              /\ (c.headers = NoId) = ~c.fetch}

----------------------------------------------------------------------------
\* Helpers

\* faulty variant: the content type is compared as it was sent
SameCase(s) == s

\* String.prototype.toLowerCase on the content types of the model
ToLowerCase(s) == IF s = "Text/Event-Stream" THEN "text/event-stream" ELSE s

\* faulty variant: the configured interval is not read
IgnoreConfiguredInterval(c) == DefaultRetryInterval

\* config?.defaultRetryInterval ?? DefaultRetryInterval
InitialRetryInterval(c) ==
    IF c.defaultRetryInterval = Undefined THEN DefaultRetryInterval
    ELSE c.defaultRetryInterval

\* faulty variant: abort() that reaches no exchange
NotAborted(e) == e

\* an exchange hit by abort(): fetchEventSource disposes it and resolves
Aborted(e) == IF e.cur THEN [e EXCEPT !.aborted = TRUE, !.cur = FALSE] ELSE e

\* after abort() only an onopen that is awaiting config.onOpen runs on
StillRuns(e) == ~e.aborted \/ e.phase = "opening"

\* faulty variant: abort() cancels nothing
NoAbort(exs) == exs

\* abortController.current?.abort()
Abort(exs) == SelectSeq([i \in 1..Len(exs) |-> Aborted(exs[i])], StillRuns)

\* the exchanges without the i-th, which has ended
Ended(exs, i) == SubSeq(exs, 1, i - 1) \o SubSeq(exs, i + 1, Len(exs))

\* the exchanges with the i-th in another phase
Phase(exs, i, p) == [exs EXCEPT ![i].phase = p]

\* _clearRetryTimeout: the number of timers left pending
ClearRetryTimeout(n, tid) == IF tid = Pending THEN n - 1 ELSE n

\* the default validation of onopen, applied when config.onOpen is absent
ValidResponse(r) == r.ok /\ ToLowerCase(r.contentType) = "text/event-stream"

\* faulty variant: an empty id keeps the id known before
KeepLastEventId(ev) == IF ev.id = "" THEN lastEventId ELSE ev.id

\* onmessage: lastEventId.current = ev.id === "" ? null : ev.id
NextLastEventId(ev) == IF ev.id = "" THEN NoId ELSE ev.id

\* onmessage: if (ev.retry) retryInterval.current = ev.retry
\* (an absent retry and the number 0 are both falsy)
NextRetryInterval(ev) ==
    IF ev.retry # Undefined /\ ev.retry # 0 THEN ev.retry ELSE retryInterval

\* what config?.onClose?.() may evaluate to
OnCloseResults(c) ==
    IF c.onClose THEN {PolicyFalse, Undefined} \cup PolicyDelays ELSE {Undefined}

\* what config?.onError?.(err, errorRetries.current) may evaluate to
OnErrorResults(c) ==
    IF c.onError THEN {PolicyFalse, Undefined} \cup PolicyDelays ELSE {Undefined}

\* faulty variant: the fallback is the constant, not the interval the server gave
RetryDelayConstant(r) == IF r = Undefined THEN DefaultRetryInterval ELSE r

\* faulty variant: the number the policy returned is not used
RetryDelayIgnoresPolicy(r) == retryInterval

\* _handleRetry: the delay of the timer, given the policy's answer
RetryDelay(r) == IF r = Undefined THEN retryInterval ELSE r

\* faulty variant: the `=== false` return is missing
AlwaysRetry(r) == TRUE

\* _handleRetry: whether a timer is set, given the policy's answer
ShouldRetry(r) == r # PolicyFalse

\* faulty variant: a remote close counts as an error retry too
CountRetryAlways(err) == errorRetries + 1

\* _handleRetry: errorRetries.current after a timer was set
CountRetry(err) == IF err THEN errorRetries + 1 ELSE errorRetries

\* the mount effect's condition to start the stream: `hidden` there is the ref
\* object itself, which is truthy whatever hidden.current is
EffectStarts == explicitlyOpen /\ ~(TRUE /\ config.openWhenHidden = FALSE)

----------------------------------------------------------------------------
\* The hook's functions, as the effect they have on the refs

\* _handleRetry(err) with n timers pending and retryTimeoutId.current being tid
HandleRetry(err, r, n, tid) ==
    IF ShouldRetry(r)
    THEN /\ timers' = n + 1
         /\ retryTimeoutId' = Pending
         /\ errorRetries' = CountRetry(err)
    ELSE /\ timers' = n
         /\ retryTimeoutId' = tid
         /\ errorRetries' = errorRetries

\* the delay of the timer _handleRetry sets for the answer r, None when it sets none
Scheduled(r) == IF ShouldRetry(r) THEN RetryDelay(r) ELSE None

\* _startStream with the exchanges exs; stale: its closure is of an earlier
\* render than the current settings
StartStream(exs, stale) ==
    /\ readyState' = CONNECTING
    /\ exchanges' = Append([i \in 1..Len(exs) |-> [exs[i] EXCEPT !.cur = FALSE]],
                           [phase |-> "fetching", aborted |-> FALSE, cur |-> TRUE,
                            stale |-> stale])

\* _handleRetry: the retries argument of config.onError(err, errorRetries.current)
OnErrorArgument == errorRetries

\* faulty variant: the caller's headers are spread first, the injected
\* Last-Event-ID after them
InjectedWins(c) == IF lastEventId # NoId THEN lastEventId ELSE c.headers

\* _startStream: the Last-Event-ID entry of requestHeaders (NoId: no entry),
\* { ...(lastEventId.current && {"Last-Event-ID": ...}), ...(headers || {}) }
RequestHeaders(c) == IF c.headers # NoId THEN c.headers ELSE lastEventId

\* _startStream: the fetch implementation fetchEventSource is given; the
\* options passed are the callbacks, signal, openWhenHidden, headers and the
\* rest of config.fetchRequestInit, so it falls back to window.fetch
Transport(c) == "window.fetch"

\* faulty variant: the rejection of fetchEventSource reaches who awaits open()
RejectionPropagates(failed) == failed

\* _startStream: .catch((err) => { ... }) is chained to fetchEventSource(...)
CatchHandles == TRUE

\* whether the promise of _startStream, which open() awaits, rejects when the
\* exchange failed: onerror rethrows, so fetchEventSource rejects
Rejects(failed) == failed /\ ~CatchHandles

\* the record of the handler that ran: whether it started an exchange and
\* with which Last-Event-ID header and fetch, what the policy it asked
\* answered, the delay of the timer it set, the response onopen validated,
\* whether the promise of open() rejected and the frame config.onEventMessage
\* was called with
Ran(op, started, policy, sched) ==
    [op |-> op, started |-> started, policy |-> policy, sched |-> sched,
     header |-> IF started THEN RequestHeaders(config) ELSE NoId,
     fetch |-> IF started THEN Transport(config) ELSE "none",
     resp |-> NoResponse,
     rejected |-> Rejects(op = "error"),
     notified |-> NoMessage]

\* faulty variant: open() starts the stream whatever the state
OpenStartsAlways == TRUE

\* open(): if (readyStateRef.current === FetchEventSourceState.CLOSED)
OpenStarts == readyState = CLOSED

\* open(): the memoised callback, with the closures of the first render
OpenBody(op) ==
    /\ explicitlyOpen' = TRUE
    /\ IF OpenStarts
       THEN /\ Len(exchanges) < MaxExchanges
            /\ StartStream(exchanges, reconfigured)
       ELSE UNCHANGED <<readyState, exchanges>>
    /\ last' = Ran(op, OpenStarts, None, None)

----------------------------------------------------------------------------
Init ==
    /\ config \in Configs
    /\ lifecycle = "rendered"
    /\ reconfigured = FALSE
    /\ readyState = CLOSED
    /\ explicitlyOpen = config.initiallyOpen
    /\ lastEventId = NoId
    /\ errorRetries = 0
    /\ retryInterval = InitialRetryInterval(config)
    /\ hidden = FALSE
    /\ eventMessage = NoMessage
    /\ retryTimeoutId = NoTimer
    /\ timers = 0
    /\ exchanges = <<>>
    /\ last = Ran("render", FALSE, None, None)
    /\ callerClosed = FALSE
    /\ retriesScheduled = 0

\* the first run of the effects: the stream is started when the session is
\* explicitly open, and the visibility listener added when openWhenHidden is false
Mount ==
    /\ lifecycle = "rendered"
    /\ lifecycle' = "mounted"
    /\ IF EffectStarts
       THEN StartStream(exchanges, FALSE)
       ELSE UNCHANGED <<readyState, exchanges>>
    /\ last' = Ran("mount", EffectStarts, None, None)
    /\ UNCHANGED <<config, reconfigured, explicitlyOpen, lastEventId, errorRetries,
                   retryInterval, hidden, eventMessage, retryTimeoutId, timers,
                   callerClosed, retriesScheduled>>

\* the caller calls open()
Open ==
    /\ lifecycle = "mounted"
    /\ OpenBody("open")
    /\ callerClosed' = FALSE
    /\ UNCHANGED <<config, lifecycle, reconfigured, lastEventId, errorRetries,
                   retryInterval, hidden, eventMessage, retryTimeoutId, timers,
                   retriesScheduled>>

\* the caller calls close()
Close ==
    /\ lifecycle = "mounted"
    /\ explicitlyOpen' = FALSE
    /\ exchanges' = Abort(exchanges)
    /\ timers' = ClearRetryTimeout(timers, retryTimeoutId)
    /\ retryTimeoutId' = NoTimer
    /\ readyState' = CLOSED
    /\ callerClosed' = TRUE
    /\ last' = Ran("close", FALSE, None, None)
    /\ UNCHANGED <<config, lifecycle, reconfigured, lastEventId, errorRetries,
                   retryInterval, hidden, eventMessage, retriesScheduled>>

\* a timer set by _handleRetry fires, window.setTimeout(open, ms): the one
\* retryTimeoutId.current names, or one set earlier that it names no more
RetryTimer ==
    \E tracked \in BOOLEAN :
        /\ IF tracked THEN retryTimeoutId = Pending
           ELSE timers > (IF retryTimeoutId = Pending THEN 1 ELSE 0)
        /\ timers' = timers - 1
        /\ retryTimeoutId' = IF tracked THEN NoTimer ELSE retryTimeoutId
        /\ OpenBody("retryTimer")
        /\ UNCHANGED <<config, lifecycle, reconfigured, lastEventId, errorRetries,
                       retryInterval, hidden, eventMessage, callerClosed, retriesScheduled>>

\* the .catch of _startStream, for the i-th exchange, which failed: the state is
\* set CLOSED, the timer of retryTimeoutId cleared and _handleRetry(err) run,
\* where the onError policy answers r
Catch(i, r, resp) ==
    /\ errorRetries < MaxErrorRetries
    /\ ClearRetryTimeout(timers, retryTimeoutId) < MaxTimers
    /\ readyState' = CLOSED
    /\ HandleRetry(TRUE, r, ClearRetryTimeout(timers, retryTimeoutId), NoTimer)
    /\ exchanges' = Ended(exchanges, i)
    /\ last' = [Ran("error", FALSE, r, Scheduled(r)) EXCEPT !.resp = resp]
    /\ retriesScheduled' = IF timers' > ClearRetryTimeout(timers, retryTimeoutId)
                           THEN retriesScheduled + 1 ELSE retriesScheduled
    /\ UNCHANGED <<config, lifecycle, reconfigured, explicitlyOpen, lastEventId,
                   retryInterval, hidden, eventMessage, callerClosed>>

\* onopen ran to its end: setReadyState(OPEN), errorRetries.current = 0; the
\* exchange goes on to read the body unless it was aborted meanwhile
Opened(i, resp) ==
    /\ readyState' = OPEN
    /\ errorRetries' = 0
    /\ exchanges' = IF exchanges[i].aborted THEN Ended(exchanges, i)
                    ELSE Phase(exchanges, i, "streaming")
    /\ last' = [Ran(IF exchanges[i].aborted THEN "lateOpened" ELSE "opened",
                    FALSE, None, None) EXCEPT !.resp = resp]
    /\ retriesScheduled' = 0
    /\ UNCHANGED <<config, lifecycle, reconfigured, explicitlyOpen, lastEventId,
                   retryInterval, hidden, eventMessage, retryTimeoutId, timers,
                   callerClosed>>

\* nothing but the exchanges changes
OnlyExchanges(op) ==
    /\ last' = Ran(op, FALSE, None, None)
    /\ UNCHANGED <<config, lifecycle, reconfigured, readyState, explicitlyOpen,
                   lastEventId, errorRetries, retryInterval, hidden, eventMessage,
                   retryTimeoutId, timers, callerClosed, retriesScheduled>>

\* the response of an exchange arrives and onopen is called with it: with
\* config.onOpen the default validation is skipped and config.onOpen awaited
FetchResponse ==
    \E i \in 1..Len(exchanges), resp \in Responses :
        /\ exchanges[i].phase = "fetching" /\ ~exchanges[i].aborted
        /\ IF config.onOpen
           THEN /\ exchanges' = Phase(exchanges, i, "opening")
                /\ OnlyExchanges("response")
           ELSE IF ValidResponse(resp)
                THEN Opened(i, resp)
                ELSE \E r \in OnErrorResults(config) : Catch(i, r, resp)

\* the fetch of an exchange fails (network error)
FetchError ==
    \E i \in 1..Len(exchanges), r \in OnErrorResults(config) :
        /\ exchanges[i].phase = "fetching" /\ ~exchanges[i].aborted
        /\ Catch(i, r, NoResponse)

\* the promise of config.onOpen resolves, also for an exchange aborted meanwhile
OnOpenResolved ==
    \E i \in 1..Len(exchanges) :
        /\ exchanges[i].phase = "opening"
        /\ Opened(i, NoResponse)

\* the promise of config.onOpen rejects: an open error, unless the exchange was
\* aborted meanwhile (fetchEventSource then drops the error)
OnOpenRejected ==
    \E i \in 1..Len(exchanges) :
        /\ exchanges[i].phase = "opening"
        /\ IF exchanges[i].aborted
           THEN /\ exchanges' = Ended(exchanges, i)
                /\ OnlyExchanges("lateRejected")
           ELSE \E r \in OnErrorResults(config) : Catch(i, r, NoResponse)

\* onmessage(ev)
OnMessage ==
    \E i \in 1..Len(exchanges), ev \in Frames :
        /\ exchanges[i].phase = "streaming" /\ ~exchanges[i].aborted
        /\ lastEventId' = NextLastEventId(ev)
        /\ retryInterval' = NextRetryInterval(ev)
        /\ eventMessage' = ev
        /\ last' = [Ran("message", FALSE, None, None) EXCEPT !.notified = ev]
        /\ UNCHANGED <<config, lifecycle, reconfigured, readyState, explicitlyOpen,
                       errorRetries, hidden, retryTimeoutId, timers, exchanges,
                       callerClosed, retriesScheduled>>

\* onclose(): the remote ended the stream without error
OnClose ==
    \E i \in 1..Len(exchanges), r \in OnCloseResults(config) :
        /\ exchanges[i].phase = "streaming" /\ ~exchanges[i].aborted
        /\ timers < MaxTimers
        /\ readyState' = CLOSED
        /\ HandleRetry(FALSE, r, timers, retryTimeoutId)
        /\ exchanges' = Ended(exchanges, i)
        /\ last' = Ran("remoteClose", FALSE, r, Scheduled(r))
        /\ UNCHANGED <<config, lifecycle, reconfigured, explicitlyOpen, lastEventId,
                       retryInterval, hidden, eventMessage, callerClosed, retriesScheduled>>

\* reading the body of an open exchange fails: onerror rethrows
StreamError ==
    \E i \in 1..Len(exchanges), r \in OnErrorResults(config) :
        /\ exchanges[i].phase = "streaming" /\ ~exchanges[i].aborted
        /\ Catch(i, r, NoResponse)

\* onVisibilityChange, listened to only when config.openWhenHidden === false
OnVisibilityChange ==
    /\ lifecycle = "mounted"
    /\ config.openWhenHidden = FALSE
    /\ hidden' = ~hidden
    /\ IF hidden'
       THEN /\ exchanges' = Abort(exchanges)
            /\ readyState' = CLOSED
            /\ last' = Ran("hidden", FALSE, None, None)
            /\ UNCHANGED explicitlyOpen
       ELSE IF explicitlyOpen
            THEN OpenBody("visible")
            ELSE /\ last' = Ran("visible", FALSE, None, None)
                 /\ UNCHANGED <<explicitlyOpen, readyState, exchanges>>
    /\ UNCHANGED <<config, lifecycle, reconfigured, lastEventId, errorRetries,
                   retryInterval, eventMessage, retryTimeoutId, timers,
                   callerClosed, retriesScheduled>>

\* an exchange that outlives a reconfiguration has the closures of an old render
Outdated(exs) == [i \in 1..Len(exs) |-> [exs[i] EXCEPT !.stale = TRUE]]

\* the target or a request option changed: the cleanup of the first effect
\* runs, then the effect again with the closures of the new render
Reconfigure ==
    /\ lifecycle = "mounted"
    /\ reconfigured' = TRUE
    /\ timers' = ClearRetryTimeout(timers, retryTimeoutId)
    /\ retryTimeoutId' = NoTimer
    /\ IF EffectStarts
       THEN /\ Len(Abort(exchanges)) < MaxExchanges
            /\ StartStream(Outdated(Abort(exchanges)), FALSE)
       ELSE /\ exchanges' = Outdated(Abort(exchanges))
            /\ UNCHANGED readyState
    /\ last' = Ran("reconfigure", EffectStarts, None, None)
    /\ UNCHANGED <<config, lifecycle, explicitlyOpen, lastEventId, errorRetries,
                   retryInterval, hidden, eventMessage, callerClosed, retriesScheduled>>

\* the component unmounts: the cleanups of both effects run
Unmount ==
    /\ lifecycle = "mounted"
    /\ lifecycle' = "unmounted"
    /\ exchanges' = Abort(exchanges)
    /\ timers' = ClearRetryTimeout(timers, retryTimeoutId)
    /\ retryTimeoutId' = NoTimer
    /\ last' = Ran("unmount", FALSE, None, None)
    /\ UNCHANGED <<config, reconfigured, readyState, explicitlyOpen, lastEventId,
                   errorRetries, retryInterval, hidden, eventMessage, callerClosed, retriesScheduled>>

Next ==
    \/ Mount
    \/ Open
    \/ Close
    \/ RetryTimer
    \/ FetchResponse
    \/ FetchError
    \/ OnOpenResolved
    \/ OnOpenRejected
    \/ OnMessage
    \/ OnClose
    \/ StreamError
    \/ OnVisibilityChange
    \/ Reconfigure
    \/ Unmount

Spec == Init /\ [][Next]_vars
----------------------------------------------------------------------------
\* Properties

\* the handlers that call open()
OpenCalls == {"open", "retryTimer", "visible"}

\* no exchange that can still deliver to the session is left un-aborted
NoLiveExchange(exs) == \A i \in 1..Len(exs) : exs[i].aborted

\* C1: in every reachable state where readyState is OPEN or CONNECTING, a call
\* of open() (by the caller, a retry timer or a visibility resume) leaves
\* readyState and the exchanges as they are and starts no exchange.
C1_OpenIsNoOp ==
    [][(last'.op \in OpenCalls /\ readyState \in {OPEN, CONNECTING})
        => (readyState' = readyState /\ exchanges' = exchanges /\ ~last'.started)]_vars

\* C1 witness: the caller's open() ran in OPEN or CONNECTING and started nothing
C1_Witness ==
    last.op = "open" /\ ~last.started /\ readyState \in {OPEN, CONNECTING}

\* C2 (as claimed): once the caller has called close() and until the caller
\* calls open() again, readyState is CLOSED and no handler starts an exchange.
C2_ClosedUntilOpen ==
    callerClosed => (readyState = CLOSED /\ ~last.started)

\* C3 (as claimed): right after close() readyState is CLOSED, explicitlyOpen is
\* false, no exchange is left un-aborted and no retry timer is pending.
C3_AfterClose ==
    last.op = "close" =>
        /\ readyState = CLOSED
        /\ ~explicitlyOpen
        /\ NoLiveExchange(exchanges)
        /\ timers = 0

\* C4: a remote close without an onClose policy sets readyState CLOSED and sets
\* one more timer, whose delay is the current retryInterval; errorRetries is
\* unchanged.
C4_CloseRetriesAfterInterval ==
    [][(last'.op = "remoteClose" /\ ~config.onClose)
        => /\ readyState' = CLOSED
           /\ timers' = timers + 1
           /\ retryTimeoutId' = Pending
           /\ last'.sched = retryInterval
           /\ errorRetries' = errorRetries]_vars

\* C4 witness: a remote close without onClose was retried after the interval
\* the server had given
C4_Witness ==
    /\ last.op = "remoteClose" /\ ~config.onClose
    /\ last.sched = 2000 /\ retryTimeoutId = Pending /\ readyState = CLOSED

\* C5: an error without an onError policy sets readyState CLOSED and sets a
\* timer whose delay is the current retryInterval; retryInterval is the
\* configured defaultRetryInterval (1000 if none) at first and changes only
\* when a frame carries a retry value, to that value.
C5_ErrorRetriesAfterInterval ==
    /\ retryInterval = (IF config.defaultRetryInterval = Undefined THEN 1000
                        ELSE config.defaultRetryInterval)
    /\ [][/\ (last'.op = "error" /\ ~config.onError)
              => /\ readyState' = CLOSED
                 /\ retryTimeoutId' = Pending
                 /\ last'.sched = retryInterval
          /\ retryInterval' # retryInterval
              => /\ last'.op = "message"
                 /\ eventMessage'.retry = retryInterval']_vars

\* C5 witness: an error without onError was retried after the configured
\* interval, no frame having carried a retry value
C5_Witness ==
    /\ last.op = "error" /\ ~config.onError
    /\ last.sched = 500 /\ retryInterval = 500 /\ readyState = CLOSED

\* C6: when the policy asked for a close or an error answers false, no timer is
\* set, readyState is CLOSED, and explicitlyOpen and errorRetries are unchanged.
C6_FalseStopsRetry ==
    [][last'.policy = PolicyFalse
        => /\ last'.sched = None
           /\ timers' <= timers
           /\ readyState' = CLOSED
           /\ explicitlyOpen' = explicitlyOpen
           /\ errorRetries' = errorRetries]_vars

\* C6 witness: onError answered false after an earlier error had been retried
C6_Witness ==
    /\ last.op = "error" /\ last.policy = PolicyFalse
    /\ errorRetries = 1 /\ timers = 0 /\ readyState = CLOSED

\* C7: when the policy answers a number N the timer's delay is N and
\* retryInterval is unchanged; when it answers nothing the delay is retryInterval.
C7_NumberOverridesOnce ==
    [][/\ last'.policy \in PolicyDelays
            => (last'.sched = last'.policy /\ retryInterval' = retryInterval)
       /\ (last'.op \in {"remoteClose", "error"} /\ last'.policy = Undefined)
            => (last'.sched = retryInterval /\ retryInterval' = retryInterval)]_vars

\* C7 witness: a policy answered 3000 while retryInterval was and is 500
C7_Witness ==
    last.policy = 3000 /\ last.sched = 3000 /\ retryInterval = 500

\* C8: after each frame lastEventId is null if the frame's id is "" and the
\* frame's id otherwise.
C8_LastEventIdFollowsFrame ==
    last.op = "message" =>
        lastEventId = (IF eventMessage.id = "" THEN NoId ELSE eventMessage.id)

\* C8 witness: a frame without id arrived after the frame a1 (which set the
\* interval 2000) and cleared lastEventId
C8_Witness ==
    /\ last.op = "message" /\ eventMessage.id = ""
    /\ lastEventId = NoId /\ retryInterval = 2000

\* C9 (as claimed): after a frame that carries a retry value R, retryInterval is R.
C9_RetryFollowsFrame ==
    (last.op = "message" /\ eventMessage.retry # Undefined)
        => retryInterval = eventMessage.retry

\* C10: a transition to hidden in CONNECTING or OPEN leaves no exchange
\* un-aborted and sets readyState CLOSED; no policy is asked, no timer set or
\* cleared, and explicitlyOpen and errorRetries are unchanged.
C10_HiddenSuspends ==
    [][(last'.op = "hidden" /\ readyState \in {CONNECTING, OPEN})
        => /\ readyState' = CLOSED
           /\ NoLiveExchange(exchanges')
           /\ last'.policy = None /\ last'.sched = None
           /\ timers' = timers /\ retryTimeoutId' = retryTimeoutId
           /\ explicitlyOpen' = explicitlyOpen
           /\ errorRetries' = errorRetries]_vars

\* C10 witness: the transition to hidden aborted an exchange that was awaiting
\* config.onOpen, the session staying explicitly open
C10_Witness ==
    /\ last.op = "hidden" /\ hidden /\ readyState = CLOSED /\ explicitlyOpen
    /\ Len(exchanges) = 1 /\ exchanges[1].aborted

\* C11 (as claimed): with openWhenHidden false, a transition to visible while
\* explicitlyOpen is true leaves a live exchange and readyState not CLOSED,
\* and the exchange it starts carries lastEventId as Last-Event-ID (the
\* caller's headers naming none); with explicitlyOpen false it starts nothing.
C11_VisibleResumes ==
    (last.op = "visible" /\ ~config.openWhenHidden) =>
        IF explicitlyOpen
        THEN /\ readyState # CLOSED
             /\ ~NoLiveExchange(exchanges)
             /\ (last.started /\ config.headers = NoId) => last.header = lastEventId
        ELSE ~last.started

\* C12 (as claimed): with initiallyOpen false, readyState is CLOSED and there
\* is no exchange while neither open() nor close() was called, and readyState
\* becomes OPEN only from CONNECTING.
C12_ConnectingBeforeOpen ==
    [][~config.initiallyOpen =>
        /\ (~explicitlyOpen' /\ ~callerClosed')
               => (readyState' = CLOSED /\ exchanges' = <<>>)
        /\ (readyState' = OPEN /\ readyState # OPEN) => readyState = CONNECTING]_vars

\* C13 (as claimed): with initiallyOpen true, the mount effect starts an
\* exchange and readyState is CONNECTING, whatever the other options.
C13_StartsOnCreation ==
    (last.op = "mount" /\ config.initiallyOpen)
        => (last.started /\ readyState = CONNECTING)

\* C14 (as claimed): a reconfiguration in OPEN or CONNECTING leaves the old
\* exchanges aborted and no timer tracked, and starts an exchange, readyState
\* being CONNECTING, whatever openWhenHidden.
C14_ReconfigureRestarts ==
    [][(last'.op = "reconfigure" /\ readyState \in {OPEN, CONNECTING})
        => /\ retryTimeoutId' = NoTimer
           /\ last'.started
           /\ readyState' = CONNECTING
           /\ ~NoLiveExchange(exchanges')]_vars

C17_DefaultValidation ==
    [][(~config.onOpen /\ last'.resp # NoResponse) =>
        IF last'.resp.ok
           /\ last'.resp.contentType \in {"text/event-stream", "Text/Event-Stream"}
        THEN last'.op = "opened" /\ readyState' = OPEN /\ errorRetries' = 0
        ELSE /\ last'.op = "error" /\ last'.policy \in OnErrorResults(config)
             /\ readyState # OPEN /\ readyState' = CLOSED
             /\ errorRetries' >= errorRetries]_vars

\* C17 witness: a response whose content type is written in capitals opened
\* the session
C17_Witness ==
    /\ ~config.onOpen /\ last.op = "opened" /\ readyState = OPEN
    /\ last.resp = [ok |-> TRUE, contentType |-> "Text/Event-Stream"]

\* C18: an exchange is started with the caller's Last-Event-ID header if the
\* caller's headers hold one, else with lastEventId if it is set, else with
\* none.
C18_LastEventIdHeader ==
    last.started =>
        /\ config.headers # NoId => last.header = config.headers
        /\ (config.headers = NoId /\ lastEventId # NoId) => last.header = lastEventId
        /\ (config.headers = NoId /\ lastEventId = NoId) => last.header = NoId

\* C18 witness: a retry started an exchange carrying the id of the last frame
C18_Witness ==
    /\ last.op = "retryTimer" /\ last.started /\ config.headers = NoId
    /\ lastEventId = "a1" /\ last.header = "a1"

\* C19 (as claimed): with config.fetch supplied, an exchange is started
\* through it.
C19_UsesConfiguredFetch ==
    (last.started /\ config.fetch) => last.fetch = "config.fetch"

\* C20 (as claimed): at most one retry timer is pending.
C20_OneRetryTimer ==
    timers <= 1

\* the exchanges that were not aborted
LiveExchanges(exs) == {i \in 1..Len(exs) : ~exs[i].aborted}

\* C21 (as claimed): while the component is mounted, readyState is CLOSED
\* whenever no un-aborted exchange is in flight.
C21_ClosedWithoutExchange ==
    (lifecycle = "mounted" /\ NoLiveExchange(exchanges)) => readyState = CLOSED

\* C22 (as claimed): a callback of an aborted exchange leaves readyState,
\* errorRetries, lastEventId, retryInterval and eventMessage as they are.
C22_CancelledIsSilent ==
    [][last'.op \in {"lateOpened", "lateRejected"}
        => /\ readyState' = readyState
           /\ errorRetries' = errorRetries
           /\ lastEventId' = lastEventId
           /\ retryInterval' = retryInterval
           /\ eventMessage' = eventMessage]_vars

\* C23: at most one exchange is un-aborted, so a handler that starts an
\* exchange leaves every earlier one finished or aborted.
C23_OneLiveExchange ==
    Cardinality(LiveExchanges(exchanges)) <= 1

\* C23 witness: an exchange was started while an aborted one was still
\* awaiting config.onOpen
C23_Witness ==
    /\ last.started /\ Len(exchanges) = 2
    /\ exchanges[1].aborted /\ ~exchanges[2].aborted

\* C24 (as claimed): when a retry timer fires in a mounted session the caller
\* did not close, an exchange is in flight afterwards and readyState is not
\* CLOSED.
C24_RetryReconnects ==
    (last.op = "retryTimer" /\ lifecycle = "mounted" /\ ~callerClosed)
        => (~NoLiveExchange(exchanges) /\ readyState # CLOSED)

\* C25 (as claimed): an exchange started after a reconfiguration has the
\* settings and callbacks of the current render.
C25_StartsWithNewSettings ==
    (last.started /\ reconfigured) => ~exchanges[Len(exchanges)].stale

\* C26 (as claimed): with openWhenHidden false and the document hidden, only
\* the caller's open() starts an exchange: a retry timer that fires does not.
C26_SuspendedWhileHidden ==
    (~config.openWhenHidden /\ hidden /\ last.started) => last.op = "open"

\* C27 (as claimed): once unmounted, no exchange is un-aborted, no timer is
\* pending and no exchange is started.
C27_TornDown ==
    lifecycle = "unmounted" =>
        /\ NoLiveExchange(exchanges)
        /\ timers = 0
        /\ ~last.started

\* C28 (as claimed): after a frame, config.onEventMessage was called with it,
\* eventMessage is the frame, lastEventId is its id (none for an empty id) and
\* retryInterval is its retry value if it carries one.
C28_FrameReported ==
    last.op = "message" =>
        /\ last.notified = eventMessage
        /\ lastEventId = (IF eventMessage.id = "" THEN NoId ELSE eventMessage.id)
        /\ eventMessage.retry # Undefined => retryInterval = eventMessage.retry
====
